---- MODULE Spec2Model ----
(***************************************************************************)
(* A model of openapi_trimmer/main.py: trim_yaml, find_component_refs and  *)
(* strip_unreferenced_components.                                          *)
(*                                                                         *)
(* Strings are sequences of symbols.  A symbol is either one character     *)
(* ("/", ",", " ", "#", "a", "b") or a whole word ("components",           *)
(* "schemas", "A"); str.split, str.strip and str.startswith work on the    *)
(* symbols.  A parsed YAML value is a node: a dict (an insertion-ordered   *)
(* sequence of key/value items), a list, a string or null.                 *)
(***************************************************************************)
EXTENDS Integers, Sequences, FiniteSets, TLC

\* --------------------------------------------------------------- bounds
NumNames == 3     \* schema names A, B, C, ... of the generated catalogs
MaxEntries == 3   \* entries of a generated catalog
MaxDepth == 1     \* nesting depth of a reference inside a generated definition
MaxRaw == 3       \* symbols of a generated raw prefix list

\* ------------------------------------------------------- document trees
W(w) == <<w>>

Str(s) == [kind |-> "str", str |-> s, items |-> <<>>]
Null == [kind |-> "null", str |-> <<>>, items |-> <<>>]
Item(k, v) == [key |-> k, val |-> v]
Dict(items) == [kind |-> "dict", str |-> <<>>, items |-> items]
List(vals) == [kind |-> "list", str |-> <<>>,
               items |-> [i \in 1..Len(vals) |-> Item(<<>>, vals[i])]]
EmptyDict == Dict(<<>>)

\* dict operations, on the item sequence of a dict (insertion order is kept)
DictHas(items, k) == \E i \in 1..Len(items) : items[i].key = k
DictGet(items, k, default) ==
    IF DictHas(items, k)
    THEN items[CHOOSE i \in 1..Len(items) : items[i].key = k].val
    ELSE default
DictPut(items, k, v) ==
    IF DictHas(items, k)
    THEN [i \in 1..Len(items) |-> IF items[i].key = k THEN Item(k, v) ELSE items[i]]
    ELSE Append(items, Item(k, v))
DictDel(items, k) == SelectSeq(items, LAMBDA e : e.key # k)
DictKeys(items) == {items[i].key : i \in 1..Len(items)}

\* bool(value): an empty dict, list or string, and None, are false
Truthy(node) ==
    CASE node.kind = "dict" -> node.items # <<>>
      [] node.kind = "list" -> node.items # <<>>
      [] node.kind = "str" -> node.str # <<>>
      [] OTHER -> FALSE

\* ------------------------------------------------------------- strings
HasSym(s, c) == \E i \in 1..Len(s) : s[i] = c
FirstSym(s, c) == CHOOSE i \in 1..Len(s) : s[i] = c /\ \A j \in 1..(i - 1) : s[j] # c

RECURSIVE split(_, _)
split(s, sep) ==
    IF ~HasSym(s, sep) THEN <<s>>
    ELSE LET i == FirstSym(s, sep)
         IN <<SubSeq(s, 1, i - 1)>> \o split(SubSeq(s, i + 1, Len(s)), sep)

RECURSIVE lstrip(_)
lstrip(s) == IF s # <<>> /\ Head(s) = " " THEN lstrip(Tail(s)) ELSE s
RECURSIVE rstrip(_)
rstrip(s) == IF s # <<>> /\ s[Len(s)] = " " THEN rstrip(SubSeq(s, 1, Len(s) - 1)) ELSE s
strip(s) == rstrip(lstrip(s))

startswith(s, p) == Len(p) <= Len(s) /\ SubSeq(s, 1, Len(p)) = p

\* faulty variant: the pieces are tested stripped but kept as they are
parse_list_unstripped(raw) == SelectSeq(split(raw, ","), LAMBDA x : strip(x) # <<>>)

\* [x.strip() for x in raw.split(",") if x.strip()]
StripAll(parts) == [i \in 1..Len(parts) |-> strip(parts[i])]
parse_list(raw) == SelectSeq(StripAll(split(raw, ",")), LAMBDA x : x # <<>>)

Range(seq) == {seq[i] : i \in 1..Len(seq)}

\* node-level dict access: d.get(k, default), k in d, d[k] = v
has(d, k) == DictHas(d.items, k)
get(d, k, default) == DictGet(d.items, k, default)
put(d, k, v) == Dict(DictPut(d.items, k, v))

\* d[k] raises KeyError when k is missing: the exception is a value here
KeyError == [kind |-> "KeyError", str |-> <<>>, items |-> <<>>]
Subscript(d, k) == IF d.kind = "dict" /\ has(d, k) THEN get(d, k, Null) ELSE KeyError

K_paths == W("paths")
K_tags == W("tags")
K_components == W("components")
K_schemas == W("schemas")
K_name == W("name")
K_ref == W("$ref")

\* ------------------------------------------------- find_component_refs
\* refs: a dict (item sequence) from category to a set of names
RefPrefix == <<"#", "/", "components", "/">>

\* refs.setdefault(type, set()).add(name)
add_ref(refs, type, name) == DictPut(refs, type, DictGet(refs, type, {}) \cup {name})

\* the node's own '$ref', when it is a string '#/components/<type>/<name>...'
own_ref(node, refs) ==
    LET ref == get(node, K_ref, Null)
    IN IF ref.kind = "str" /\ startswith(ref.str, RefPrefix)
       THEN LET parts == split(ref.str, "/")
            IN IF Len(parts) >= 4 THEN add_ref(refs, parts[3], parts[4]) ELSE refs
       ELSE refs

RECURSIVE find_component_refs(_, _)
RECURSIVE find_in_values(_, _, _)
\* faulty variant: lists are not walked
find_component_refs_dicts_only(node, refs) ==
    IF node.kind = "dict" THEN find_in_values(node.items, 1, own_ref(node, refs))
    ELSE refs

find_component_refs(node, refs) ==
    IF node.kind = "dict" THEN find_in_values(node.items, 1, own_ref(node, refs))
    ELSE IF node.kind = "list" THEN find_in_values(node.items, 1, refs)
    ELSE refs
\* for value in node.values() / for item in node: find_component_refs(value, refs)
find_in_values(items, i, refs) ==
    IF i > Len(items) THEN refs
    ELSE find_in_values(items, i + 1, find_component_refs(items[i].val, refs))

\* ------------------------------------------------------------ trim_yaml
\* the dict comprehension of lines 89-90
retained_paths(prefixes, data) ==
    Dict(SelectSeq(get(data, K_paths, EmptyDict).items,
                   LAMBDA e : \E i \in 1..Len(prefixes) : startswith(e.key, prefixes[i])))

\* faulty variant: only the get operations are read
collect_tags_get_only(paths) ==
    UNION {{tg.val : tg \in Range(get(get(p.val, W("get"), EmptyDict), K_tags, List(<<>>)).items)}
           : p \in Range(paths.items)}

\* paths_tags: the tags of every method value of every retained path
collect_tags(paths) ==
    UNION {UNION {{tg.val : tg \in Range(get(m.val, K_tags, List(<<>>)).items)}
                  : m \in Range(p.val.items)}
           : p \in Range(paths.items)}

\* data['tags'] = [tag for tag in data['tags'] if tag['name'] in paths_tags]
filter_tags(data, tags_used) ==
    IF has(data, K_tags)
    THEN put(data, K_tags,
             [get(data, K_tags, Null) EXCEPT
                !.items = SelectSeq(@, LAMBDA e : Subscript(e.val, K_name) \in tags_used)])
    ELSE data

\* for component in exclude_components:
\*     if component in data['components']['schemas']: del ...[component]
RECURSIVE del_each(_, _, _)
del_each(schemas, names, i) ==
    IF i > Len(names) THEN schemas
    ELSE del_each(IF has(schemas, names[i]) THEN Dict(DictDel(schemas.items, names[i]))
                  ELSE schemas,
                  names, i + 1)

\* the exclusion stage raises when data['components']['schemas'] does
exclude_raises(raw, data) ==
    /\ raw # <<>>
    /\ has(data, K_components)
    /\ parse_list(raw) # <<>>
    /\ Subscript(Subscript(data, K_components), K_schemas) = KeyError

\* faulty variant: the names are deleted from every category
exclude_from_every_category(components, names) ==
    IF names = <<>> THEN components
    ELSE Dict([i \in 1..Len(components.items) |->
                 Item(components.items[i].key, del_each(components.items[i].val, names, 1))])

\* the components mapping after the exclusion loop (deleted in place)
exclude_from(components, names) ==
    IF names = <<>> THEN components
    ELSE put(components, K_schemas, del_each(Subscript(components, K_schemas), names, 1))

exclude(raw, data) ==
    IF raw # <<>> /\ has(data, K_components)
    THEN put(data, K_components, exclude_from(get(data, K_components, Null), parse_list(raw)))
    ELSE data

\* ------------------------------------- strip_unreferenced_components
\* faulty variant: components[comp_type][name]
component_lookup_subscript(components, comp_type, name) ==
    IF Subscript(components, comp_type) = KeyError THEN KeyError
    ELSE Subscript(Subscript(components, comp_type), name)

\* components.get(comp_type, {}).get(name)
component_lookup(components, comp_type, name) ==
    get(get(components, comp_type, EmptyDict), name, Null)

\* faulty variant: the names already reached are queued again
merge_requeue(st, n_type, n_names) ==
    [st EXCEPT !.refs = DictPut(@, n_type, DictGet(@, n_type, {}) \cup n_names),
               !.to_process = DictPut(@, n_type, DictGet(@, n_type, {}) \cup n_names)]

\* lines 151-155, on st = [refs, to_process, raised]
merge(st, n_type, n_names) ==
    LET existing == DictGet(st.refs, n_type, {})
        diff == n_names \ existing
    IN IF diff # {}
       THEN [st EXCEPT !.refs = DictPut(@, n_type, existing \cup diff),
                       !.to_process = DictPut(@, n_type, DictGet(@, n_type, {}) \cup diff)]
       ELSE [st EXCEPT !.refs = DictPut(@, n_type, existing)]

RECURSIVE merge_all(_, _, _)
merge_all(st, new_refs, i) ==
    IF i > Len(new_refs) THEN st
    ELSE merge_all(merge(st, new_refs[i].key, new_refs[i].val), new_refs, i + 1)

\* the body of "for name in names" (lines 146-155)
process_name(components, comp_type, name, st) ==
    LET component == component_lookup(components, comp_type, name)
    IN IF component = KeyError THEN [st EXCEPT !.raised = TRUE]
       ELSE IF Truthy(component)
       THEN merge_all(st, find_component_refs(component, <<>>), 1)
       ELSE st

RECURSIVE process_names(_, _, _, _, _)
process_names(components, comp_type, order, i, st) ==
    IF i > Len(order) \/ st.raised THEN st
    ELSE process_names(components, comp_type, order, i + 1,
                       process_name(components, comp_type, order[i], st))

\* a set is iterated in an order the program does not choose
Orderings(S) ==
    {f \in [1..Cardinality(S) -> S] : \A i, j \in 1..Cardinality(S) : f[i] = f[j] => i = j}

\* faulty variant: a category no reference names is left alone
sweep_category_skip_unnamed(comp_type, comp_items, refs) ==
    IF DictHas(refs, comp_type)
    THEN Dict(SelectSeq(comp_items.items, LAMBDA e : e.key \in DictGet(refs, comp_type, {})))
    ELSE comp_items

\* lines 158-161: the entries of one category that stay
sweep_category(comp_type, comp_items, refs) ==
    LET used == DictGet(refs, comp_type, {})
    IN Dict(SelectSeq(comp_items.items, LAMBDA e : e.key \in used))

\* lines 157-163: every category swept, the empty ones deleted
sweep(components, refs) ==
    Dict(SelectSeq([i \in 1..Len(components.items) |->
                       Item(components.items[i].key,
                            sweep_category(components.items[i].key,
                                           components.items[i].val, refs))],
                   LAMBDA e : e.val.items # <<>>))

\* lines 157-168 on the document
sweep_data(data, refs) ==
    LET components == sweep(get(data, K_components, EmptyDict), refs)
    IN IF components.items = <<>> THEN Dict(DictDel(data.items, K_components))
       ELSE put(data, K_components, components)

\* ------------------------------------------------------ input documents
NameOf == <<"A", "B", "C", "D", "E">>
SchemaNames == {NameOf[i] : i \in 1..NumNames}
\* catalog entries the generated documents draw on, in document order
PoolSeq == [i \in 1..NumNames |-> <<"schemas", NameOf[i]>>] \o <<<<"parameters", "A">>>>
Pool == Range(PoolSeq)

RefTo(t) == <<"#", "/", "components", "/", t[1], "/", t[2]>>
RefNode(t) == Dict(<<Item(K_ref, Str(RefTo(t)))>>)

\* node n under d levels of nesting, dicts and lists in turn
RECURSIVE Wrap(_, _)
Wrap(n, d) ==
    IF d = 0 THEN n
    ELSE IF d % 2 = 1
    THEN Dict(<<Item(W("type"), Str(W("object"))),
                Item(W("properties"), Dict(<<Item(W("x"), Wrap(n, d - 1))>>))>>)
    ELSE Dict(<<Item(W("allOf"), List(<<Str(W("x")), Wrap(n, d - 1)>>))>>)

\* a definition that refers to t (or to nothing) at nesting depth d
Def(t, d) == IF t = <<>> THEN Wrap(EmptyDict, d) ELSE Wrap(RefNode(t), d)

CatItems(cat, present, tgt, d) ==
    LET ts == SelectSeq(PoolSeq, LAMBDA t : t[1] = cat /\ t \in present)
    IN [i \in 1..Len(ts) |-> Item(W(ts[i][2]), Def(tgt[ts[i]], d))]

Catalog(present, tgt, d) ==
    Dict(SelectSeq(<<Item(K_schemas, Dict(CatItems("schemas", present, tgt, d))),
                     Item(W("parameters"), Dict(CatItems("parameters", present, tgt, d)))>>,
                   LAMBDA e : e.val.items # <<>>))

Tags(names) == List([i \in 1..Len(names) |-> Str(W(names[i]))])
TagDef(name, text) == Dict(<<Item(K_name, Str(W(name))), Item(W("description"), Str(W(text)))>>)
Op(items) == Dict(items)
P_a == <<"/", "a">>
P_ab == <<"/", "a", "b">>
P_b == <<"/", "b">>
P_a_b == <<"/", "a", "/", "b">>

\* paths of the generated-catalog documents: /a refers to schema A, or to
\* parameter A and schema B; /b (dropped by the prefix /a) refers to schema C
GraphPaths(two) ==
    Dict(<<Item(P_a, Dict(<<Item(W("get"), Op(<<
              Item(K_tags, Tags(<<"T1">>)),
              Item(W("parameters"),
                   IF two THEN List(<<RefNode(<<"parameters", "A">>), RefNode(<<"schemas", "B">>)>>)
                   ELSE List(<<>>)),
              Item(W("responses"),
                   Dict(<<Item(W("200"), IF two THEN EmptyDict ELSE RefNode(<<"schemas", "A">>))>>))>>))>>)),
           Item(P_b, Dict(<<Item(W("get"), Op(<<Item(W("schema"), RefNode(<<"schemas", "C">>))>>))>>))>>)

PathsA ==
    Dict(<<Item(P_a, Dict(<<Item(W("get"), Op(<<Item(K_tags, Tags(<<"T1">>))>>))>>)),
           Item(P_ab, Dict(<<Item(W("get"), Op(<<Item(K_tags, Tags(<<"T2">>))>>)),
                             Item(W("post"), Op(<<Item(K_tags, Tags(<<"T1", "T3">>)),
                                                  Item(W("parameters"),
                                                       List(<<RefNode(<<"parameters", "A">>)>>))>>))>>)),
           Item(P_b, Dict(<<Item(W("get"), Op(<<Item(W("responses"),
                                                     RefNode(<<"schemas", "A">>))>>))>>))>>)
PathsB ==
    Dict(<<Item(P_b, Dict(<<Item(W("get"), Op(<<Item(K_tags, Tags(<<"T3">>)),
                                                 Item(W("schema"),
                                                      Wrap(RefNode(<<"schemas", "B">>), 2))>>))>>)),
           Item(P_a_b, Dict(<<Item(W("put"), Op(<<Item(K_tags, Tags(<<"T2">>)),
                                                   Item(W("schema"),
                                                        RefNode(<<"schemas", "Q">>))>>))>>))>>)

\* hand-written catalogs: two references in one definition, a reference
\* with a fifth segment, an external one, one with three segments, a '$ref'
\* that is no string, a catalog without schemas, an empty category
CatFull ==
    Dict(<<Item(K_schemas, Dict(<<
              Item(W("A"), Dict(<<Item(W("allOf"), List(<<RefNode(<<"schemas", "B">>),
                                                           RefNode(<<"parameters", "B">>)>>))>>)),
              Item(W("B"), EmptyDict),
              Item(W("Z"), Dict(<<Item(K_ref, Str(<<"ext.yaml", "#", "/", "components", "/",
                                                    "schemas", "/", "A">>))>>))>>)),
           Item(W("parameters"), Dict(<<
              Item(W("A"), Dict(<<Item(W("name"), Str(W("x"))),
                                  Item(W("schema"),
                                       Dict(<<Item(K_ref, Str(RefTo(<<"schemas", "Z">>)
                                                              \o <<"/", "properties">>))>>))>>)),
              Item(W("B"), Dict(<<Item(K_ref, Dict(<<Item(K_ref, Str(<<"#", "/", "components",
                                                                        "/", "schemas">>))>>))>>)),
              Item(W("Z"), Str(W("x")))>>))>>)
CatNoSchemas ==
    Dict(<<Item(W("parameters"), Dict(<<Item(W("A"), RefNode(<<"parameters", "A">>))>>))>>)
CatEmptySchemas ==
    Dict(<<Item(K_schemas, EmptyDict), Item(W("responses"), Dict(<<Item(W("A"), Null)>>))>>)

\* a document: openapi, then the sections that are present
Section(k, v) == IF v = Null THEN <<>> ELSE <<Item(k, v)>>
Document(tags, paths, components) ==
    Dict(<<Item(W("openapi"), Str(W("3.0.0")))>> \o Section(K_tags, tags)
         \o Section(K_paths, paths) \o Section(K_components, components))

Alphabet == {"/", "a", "b", ",", " "}
RawStrings == UNION {[1..n -> Alphabet] : n \in 0..MaxRaw}

TagsPool ==
    {Null,
     List(<<TagDef("T1", "x"), TagDef("T2", "x"), TagDef("T3", "x")>>),
     List(<<TagDef("T2", "x"), TagDef("T4", "x"), TagDef("T1", "x"), TagDef("T2", "y")>>)}
PathsPool == {Null, EmptyDict, PathsA, PathsB}
CatalogPool == {Null, CatFull, CatNoSchemas, CatEmptySchemas}
PrefixPool == {P_a, <<" ">> \o P_ab \o <<" ", ",", ",">> \o P_b, <<"/", "x">>}
ExcludePool == {<<>>, W("A"), <<" ", "A", " ", ",", "Z">>, <<",">>}

VARIABLES
    data,                \* the document, mutated in place
    input,               \* the document as given to trim_yaml
    prefixes,            \* argument: the raw prefix list
    exclude_components,  \* argument: the raw exclusion list (<<>>: None or '')
    strip_components,    \* argument
    pc,                  \* position in trim_yaml
    paths_tags,          \* local of trim_yaml
    refs,                \* local of strip_unreferenced_components
    to_process,          \* local of strip_unreferenced_components
    pass,                \* 1, or 2 when trim_yaml runs on its own output
    first                \* the result of the first pass

vars == <<data, input, prefixes, exclude_components, strip_components, pc,
          paths_tags, refs, to_process, pass, first>>

Start(doc, pre, exc, str) ==
    /\ data = doc
    /\ input = doc
    /\ prefixes = pre
    /\ exclude_components = exc
    /\ strip_components = str
    /\ pc = "start"
    /\ paths_tags = {}
    /\ refs = <<>>
    /\ to_process = <<>>
    /\ pass = 1
    /\ first = Null

\* what a generated entry may refer to: nothing, schema A, parameter A, or
\* the next entry (the schema after it, the first after the last)
NextOf(t) ==
    IF t[1] = "schemas"
    THEN LET i == CHOOSE i \in 1..NumNames : NameOf[i] = t[2]
         IN <<"schemas", NameOf[(i % NumNames) + 1]>>
    ELSE <<"schemas", "B">>
TargetChoices(t) == {<<>>, <<"schemas", "A">>, <<"parameters", "A">>, NextOf(t)}

\* generated catalogs: which entries exist and what each refers to
InitGraph ==
    \E present \in SUBSET Pool :
      /\ Cardinality(present) <= MaxEntries
      /\ \E tgt \in {f \in [present -> Pool \cup {<<>>}] :
                        \A t \in present : f[t] \in TargetChoices(t)},
            d \in {0, MaxDepth},
            arg \in {<<FALSE, <<>>>>, <<TRUE, <<>>>>, <<FALSE, W("B")>>} :
           Start(Document(Null, GraphPaths(arg[1]), Catalog(present, tgt, d)),
                 P_a, arg[2], TRUE)

\* every raw prefix list over the alphabet
InitPrefix ==
    \E pre \in RawStrings, paths \in {PathsA, PathsB} :
        Start(Document(Null, paths, CatFull), pre, <<>>, TRUE)

\* sections present or absent, exclusion lists, the strip flag
InitSections ==
    \E tags \in TagsPool, paths \in PathsPool, components \in CatalogPool,
       pre \in PrefixPool, exc \in ExcludePool, str \in BOOLEAN :
        Start(Document(tags, paths, components), pre, exc, str)

Init == InitGraph \/ InitPrefix \/ InitSections

\* ------------------------------------------------------------- actions
\* lines 83-97
FilterPaths ==
    /\ pc = "start"
    /\ LET paths == retained_paths(parse_list(prefixes), data)
       IN /\ paths_tags' = collect_tags(paths)
          /\ data' = put(data, K_paths, paths)
    /\ pc' = "tags"
    /\ UNCHANGED <<input, prefixes, exclude_components, strip_components, refs,
                   to_process, pass, first>>

\* lines 99-101
FilterTags ==
    /\ pc = "tags"
    /\ data' = filter_tags(data, paths_tags)
    /\ pc' = "exclude"
    /\ UNCHANGED <<input, prefixes, exclude_components, strip_components, paths_tags,
                   refs, to_process, pass, first>>

\* lines 103-115
Exclude ==
    /\ pc = "exclude"
    /\ IF exclude_raises(exclude_components, data)
       THEN pc' = "error" /\ data' = data
       ELSE pc' = "strip" /\ data' = exclude(exclude_components, data)
    /\ UNCHANGED <<input, prefixes, exclude_components, strip_components, paths_tags,
                   refs, to_process, pass, first>>

\* lines 117-118 and 138-141
StripSeed ==
    /\ pc = "strip"
    /\ IF strip_components /\ has(data, K_components)
       THEN /\ refs' = find_component_refs(get(data, K_paths, EmptyDict), <<>>)
            /\ to_process' = refs'
            /\ pc' = "loop"
       ELSE /\ pc' = "done"
            /\ UNCHANGED <<refs, to_process>>
    /\ UNCHANGED <<data, input, prefixes, exclude_components, strip_components,
                   paths_tags, pass, first>>

\* one iteration of "while to_process" (lines 143-155)
StripLoop ==
    /\ pc = "loop"
    /\ to_process # <<>>
    /\ LET popped == to_process[Len(to_process)]
           rest == SubSeq(to_process, 1, Len(to_process) - 1)
       IN \E order \in Orderings(popped.val) :
            LET st == process_names(get(data, K_components, EmptyDict), popped.key, order, 1,
                                    [refs |-> refs, to_process |-> rest, raised |-> FALSE])
            IN IF st.raised
               THEN pc' = "error" /\ UNCHANGED <<refs, to_process>>
               ELSE pc' = "loop" /\ refs' = st.refs /\ to_process' = st.to_process
    /\ UNCHANGED <<data, input, prefixes, exclude_components, strip_components,
                   paths_tags, pass, first>>

\* lines 157-168
Sweep ==
    /\ pc = "loop"
    /\ to_process = <<>>
    /\ data' = sweep_data(data, refs)
    /\ pc' = "done"
    /\ UNCHANGED <<input, prefixes, exclude_components, strip_components, paths_tags,
                   refs, to_process, pass, first>>

Next == FilterPaths \/ FilterTags \/ Exclude \/ StripSeed \/ StripLoop \/ Sweep

Spec == Init /\ [][Next]_vars

\* trim_yaml applied to its own result, with the same arguments
Retrim ==
    /\ pc = "done"
    /\ pass = 1
    /\ first' = data
    /\ input' = data
    /\ pass' = 2
    /\ pc' = "start"
    /\ paths_tags' = {}
    /\ refs' = <<>>
    /\ to_process' = <<>>
    /\ UNCHANGED <<data, prefixes, exclude_components, strip_components>>

NextTwice == Next \/ Retrim
SpecTwice == Init /\ [][NextTwice]_vars

\* ---------------------------------------------- what the claims speak of
\* every node of a tree
RECURSIVE SubNodes(_)
SubNodes(n) == {n} \cup UNION {SubNodes(n.items[i].val) : i \in 1..Len(n.items)}

\* a string of the shape #/components/<category>/<name>[/...]
IsInternalRef(s) ==
    /\ Len(s) >= 7
    /\ s[1] = "#" /\ s[2] = "/" /\ s[3] = "components" /\ s[4] = "/"
    /\ s[5] # "/" /\ s[6] = "/" /\ s[7] # "/"
    /\ (Len(s) = 7 \/ s[8] = "/")

\* the (category, name) pairs a tree refers to
Targets(n) ==
    {<<W(m.items[i].val.str[5]), W(m.items[i].val.str[7])>> :
        <<m, i>> \in {<<m, i>> \in SubNodes(n) \X (1..8) :
                        /\ m.kind = "dict"
                        /\ i <= Len(m.items)
                        /\ m.items[i].key = K_ref
                        /\ m.items[i].val.kind = "str"
                        /\ IsInternalRef(m.items[i].val.str)}}

\* the (category, name) pairs of a components mapping, and of a document
Entries(components) ==
    UNION {{<<c.key, e.key>> : e \in Range(c.val.items)} : c \in Range(components.items)}
Present(doc) == Entries(get(doc, K_components, EmptyDict))
DefOf(doc, t) == get(get(get(doc, K_components, EmptyDict), t[1], EmptyDict), t[2], Null)

\* the names a raw comma-separated list holds: each piece between commas,
\* without the blanks around it, unless nothing is left
Segments(raw) ==
    {SubSeq(raw, i, j) : <<i, j>> \in
        {<<i, j>> \in (1..Len(raw) + 1) \X (0..Len(raw)) :
            /\ i <= j + 1
            /\ (i = 1 \/ raw[i - 1] = ",")
            /\ (j = Len(raw) \/ raw[j + 1] = ",")
            /\ \A k \in i..j : raw[k] # ","}}
Trimmed(s) ==
    {SubSeq(s, a, b) : <<a, b>> \in
        {<<a, b>> \in (1..Len(s) + 1) \X (0..Len(s)) :
            /\ \A k \in 1..(a - 1) : s[k] = " "
            /\ \A k \in (b + 1)..Len(s) : s[k] = " "
            /\ (a > b \/ (s[a] # " " /\ s[b] # " "))}}
Listed(raw) == (UNION {Trimmed(s) : s \in Segments(raw)}) \ {<<>>}

IsPrefix(q, p) == Len(q) <= Len(p) /\ \A i \in 1..Len(q) : p[i] = q[i]

\* the path items of the input that some listed prefix selects
InputPaths == get(input, K_paths, EmptyDict).items
Selected(e) == \E q \in Listed(prefixes) : IsPrefix(q, e.key)
RetainedItems == {e \in Range(InputPaths) : Selected(e)}
RetainedTargets == UNION {Targets(e.val) : e \in RetainedItems}

\* the closure of R under "a definition among E refers to"
RECURSIVE Closure(_, _)
Closure(R, E) ==
    LET R2 == R \cup UNION {Targets(DefOf(input, t)) : t \in R \cap E}
    IN IF R2 = R THEN R ELSE Closure(R2, E)

\* the catalog the exclusion stage leaves
Kept == Present(input) \ {<<K_schemas, n>> : n \in Listed(exclude_components)}

Stripped == pc = "done" /\ strip_components /\ has(input, K_components)

\* s restricted to the elements in K, in order
RECURSIVE Restrict(_, _)
Restrict(s, K) ==
    IF s = <<>> THEN <<>>
    ELSE (IF Head(s) \in K THEN <<Head(s)>> ELSE <<>>) \o Restrict(Tail(s), K)

\* ---------------------------------------------------------------- C1
\* C1 as stated: after trim_yaml with stripping, every (category, name) of
\* the original catalog that a chain of references from the retained paths
\* reaches is still in the output catalog.
ClosureCompleteOriginal ==
    Stripped => \A t \in Closure(RetainedTargets, Present(input)) \cap Present(input) :
                    t \in Present(data)

\* C1, amended: after trim_yaml with stripping, every (category, name) that
\* the exclusion stage left in the catalog and that a chain of references
\* from the retained paths through such entries reaches is still in the
\* output catalog, with its definition unchanged.
ClosureComplete ==
    Stripped => \A t \in Closure(RetainedTargets, Kept) \cap Kept :
                    t \in Present(data) /\ DefOf(data, t) = DefOf(input, t)

\* a schema is excluded, an entry reached only through another definition
\* stays and another entry is swept
ClosureCompleteWitness ==
    /\ Stripped
    /\ Kept # Present(input)
    /\ (Closure(RetainedTargets, Kept) \cap Kept) \ RetainedTargets # {}
    /\ Present(input) \ Present(data) # {}

\* ---------------------------------------------------------------- C2
\* C2: after trim_yaml with stripping, every (category, name) still in
\* components is reached from the retained paths by a chain of references
\* (one found in a retained path, then ones found in definitions already
\* reached); nothing outside the closure survives the sweep.
ClosureSound ==
    Stripped => /\ Present(data) \subseteq Closure(RetainedTargets, Kept)
                /\ Present(data) \subseteq Closure(RetainedTargets, Present(input))

\* some entries survive the sweep and some do not
ClosureSoundWitness ==
    /\ Stripped
    /\ Present(data) # {}
    /\ Present(input) \ Present(data) # {}
    /\ Present(data) \ RetainedTargets # {}

\* ---------------------------------------------------------------- C3
\* the (category, name) pairs of a worklist or of the reached map
Pairs(d) == UNION {{<<d[i].key, n>> : n \in d[i].val} : i \in 1..Len(d)}

\* one iteration of the loop puts nothing on the worklist that the reached
\* map already held
NoReenqueue ==
    (pc = "loop" /\ pc' = "loop") =>
        \A t \in Pairs(to_process') :
            t \in Pairs(refs) => t \in Pairs(SubSeq(to_process, 1, Len(to_process) - 1))

\* A and B refer to each other, C is referred to by nothing, a retained
\* path refers to A
CycleExample ==
    /\ strip_components
    /\ Present(input) = {<<K_schemas, W("A")>>, <<K_schemas, W("B")>>, <<K_schemas, W("C")>>}
    /\ Kept = Present(input)
    /\ Targets(DefOf(input, <<K_schemas, W("A")>>)) = {<<K_schemas, W("B")>>}
    /\ Targets(DefOf(input, <<K_schemas, W("B")>>)) = {<<K_schemas, W("A")>>}
    /\ Targets(DefOf(input, <<K_schemas, W("C")>>)) = {}
    /\ RetainedTargets = {<<K_schemas, W("A")>>}

\* every reference of the document: the reached map never leaves this set
AllTargets == Targets(input)

\* one iteration of the loop either reaches a pair it had not reached, of
\* the finitely many the document refers to, or leaves the reached map as
\* it is and the worklist one batch shorter: the loop cannot run for ever
LoopDecreases ==
    (pc = "loop" /\ pc' = "loop") =>
        /\ Pairs(refs) \subseteq Pairs(refs')
        /\ Pairs(refs') \subseteq AllTargets
        /\ Pairs(to_process') \subseteq Pairs(refs')
        /\ Pairs(refs') = Pairs(refs) => Len(to_process') < Len(to_process)

\* C3: the worklist loop ends, whatever cycles the catalog holds (each
\* iteration reaches a new pair or shortens the worklist, and an empty
\* worklist leaves the loop); a pair already in the reached map is never put
\* on the worklist again; and in the example of A and B referring to each
\* other the result keeps exactly A and B.
CycleSafe ==
    /\ [][NoReenqueue /\ LoopDecreases]_vars
    /\ []((pc = "loop" /\ to_process = <<>>) => ENABLED Sweep)
    /\ []((CycleExample /\ pc = "done") =>
            Present(data) = {<<K_schemas, W("A")>>, <<K_schemas, W("B")>>})

CycleSafeWitness ==
    /\ CycleExample
    /\ pc = "done"
    /\ Present(data) = {<<K_schemas, W("A")>>, <<K_schemas, W("B")>>}

\* ---------------------------------------------------------------- C4
\* C4: trim_yaml with stripping, applied to its own result with the same
\* arguments, yields a document equal to that result.
Idempotent ==
    (pass = 2 /\ strip_components) => /\ pc # "error"
                                      /\ pc = "done" => data = first

\* ---------------------------------------------------------------- C5
\* C5: the keys of the output paths are exactly the keys of the input
\* paths that start with some prefix of the list (split on commas, blanks
\* trimmed, empty pieces dropped), each with its value unchanged and in the
\* original order; with no match the paths are an empty mapping and nothing
\* is raised.
PrefixFiltered ==
    pc # "start" =>
        /\ has(data, K_paths)
        /\ get(data, K_paths, Null) = Dict(Restrict(InputPaths, RetainedItems))
        /\ DictKeys(get(data, K_paths, Null).items)
             = {p \in DictKeys(InputPaths) : \E q \in Listed(prefixes) : IsPrefix(q, p)}

\* a list with a comma and a blank keeps one path and drops another
PrefixFilteredWitness ==
    /\ pc = "tags"
    /\ HasSym(prefixes, ",")
    /\ HasSym(prefixes, " ")
    /\ get(data, K_paths, Null).items # <<>>
    /\ Len(get(data, K_paths, Null).items) < Len(InputPaths)

\* ---------------------------------------------------------------- C6
\* the tag names of the operations under the retained paths
UsedTags ==
    {tg.val : tg \in UNION {Range(get(m.val, K_tags, List(<<>>)).items) :
                              m \in UNION {Range(e.val.items) : e \in RetainedItems}}}
InputTags == get(input, K_tags, List(<<>>)).items

\* C6: the output tags are the input tags whose name some operation under a
\* retained path lists, in the original order; a tag no retained operation
\* lists is dropped; a document without tags gets none.
TagsFiltered ==
    /\ has(data, K_tags) <=> has(input, K_tags)
    /\ (has(input, K_tags) /\ pc \notin {"start", "tags"}) =>
          get(data, K_tags, Null)
            = [kind |-> "list", str |-> <<>>,
               items |-> Restrict(InputTags,
                                  {e \in Range(InputTags) : get(e.val, K_name, Null) \in UsedTags})]

\* a tag is dropped between two that stay
TagsFilteredWitness ==
    /\ pc = "exclude"
    /\ Len(InputTags) = 4
    /\ Len(get(data, K_tags, Null).items) = 3

\* ---------------------------------------------------------------- C7
\* C7: the exclusion stage raises nothing, whatever the components section
\* holds, and removes exactly the listed names that are schemas.
ExclusionNeverRaises ==
    /\ pc # "error"
    /\ pc = "strip" => Present(data) = Kept

\* ---------------------------------------------------------------- C8
Lacks(k) == ~has(input, k)
\* C8: a document without paths, tags or components is trimmed without an
\* error, and the stage of the missing section leaves the document as it
\* was: after trim_yaml the section is still missing.
MissingSectionsNoop ==
    (Lacks(K_paths) \/ Lacks(K_tags) \/ Lacks(K_components)) =>
        /\ pc # "error"
        /\ pc = "done" => \A k \in {K_paths, K_tags, K_components} :
                              Lacks(k) => ~has(data, k)

\* ---------------------------------------------------------------- C9
InputComponents == get(input, K_components, EmptyDict).items
\* C9: without stripping, the components after trim_yaml are those of the
\* input less the excluded names of schemas; every other category is as it
\* was, and entries no retained path reaches stay.
FrameWithoutStrip ==
    (pc \in {"done", "error"} /\ ~strip_components) =>
        /\ has(data, K_components) <=> has(input, K_components)
        /\ get(data, K_components, EmptyDict).items
             = [i \in 1..Len(InputComponents) |->
                  IF InputComponents[i].key = K_schemas
                  THEN Item(K_schemas,
                            Dict(Restrict(InputComponents[i].val.items,
                                          {e \in Range(InputComponents[i].val.items) :
                                              e.key \notin Listed(exclude_components)})))
                  ELSE InputComponents[i]]

\* schema A is excluded, parameter A and unreached entries stay
FrameWithoutStripWitness ==
    /\ pc = "done"
    /\ ~strip_components
    /\ W("A") \in Listed(exclude_components)
    /\ <<K_schemas, W("A")>> \in Present(input) \ Present(data)
    /\ <<W("parameters"), W("A")>> \in Present(data)
    /\ Present(data) \ Closure(RetainedTargets, Present(input)) # {}

\* --------------------------------------------------------------- C10
\* the references the analysis meets whose target is not in the catalog
Dangling == Closure(RetainedTargets, Kept) \ Kept

\* C10: a reference to a (category, name) that is not in the catalog, in a
\* retained path or in a reached definition, raises nothing in the
\* analysis; the output keeps the retained paths as they were and holds no
\* entry for the missing target.
DanglingTolerated ==
    /\ [][pc = "loop" => pc' \in {"loop", "done"}]_vars
    /\ []((Stripped /\ Dangling # {}) =>
            /\ get(data, K_paths, Null) = Dict(Restrict(InputPaths, RetainedItems))
            /\ Dangling \cap Present(data) = {})

\* a retained path and a reached definition both hold a dangling reference
DanglingToleratedWitness ==
    /\ Stripped
    /\ Dangling \cap RetainedTargets # {}
    /\ Dangling \ RetainedTargets # {}
    /\ Present(data) # {}

====
